---- MODULE Spec2Model ----
(***************************************************************************)
(* Model of anki_flashcard_adder.py: one run of create_flashcard(), the    *)
(* AnkiConnect helper anki_request(), the Gemini helper                    *)
(* generate_flashcard_content(), and the tag normalisation of lines        *)
(* 164-165.                                                                *)
(*                                                                         *)
(* Conventions.  A Python value that may be None is a sequence of length   *)
(* at most one: <<>> is None (or an unbound local, or an absent JSON key), *)
(* <<v>> is the value v.  Text that the program transforms (prompt answers *)
(* and the tags line) is a sequence of one-character strings; text that    *)
(* it only passes along (deck names, the concept, the generated HTML) is   *)
(* a TLA+ string.                                                          *)
(***************************************************************************)
EXTENDS Integers, Sequences, FiniteSets, TLC

\* ------------------------------------------------------------- bounds
\* Longest tags line typed at the prompt (besides the documented example).
MaxLineLen == 3
\* Most candidates in a Gemini response envelope.
MaxCandidates == 2
\* Most parts in a candidate's content.
MaxParts == 1

\* ------------------------------------------------------------- values
None == <<>>

Some(v) == <<v>>

Opt(S) == {None} \cup {Some(v) : v \in S}

SeqsUpTo(S, n) == UNION {[1..k -> S] : k \in 0..n}

\* os.environ.get("GEMINI_API_KEY"): unset, set to the empty string, or set.
EnvKeys == {None, Some(""), Some("KEY")}

\* The decks the card store may hold, in the order deckNames lists them.
DeckUniverse == <<"Default", "AI_Adder">>

FavouriteDeck == "AI_Adder"

\* What the user may type at the deck-name prompt.
DeckInputs == {"Default", "AI_Adder", "New"}

\* What the user may type at the concept prompt.
Concepts == {"ubiquitous", "entropy"}

\* What the user may type at a y/n prompt.
Answers == {<<"y">>, <<"Y">>, <<"n">>, <<>>}

\* Texts a Gemini part may carry.
Texts == {"", "<p>Def</p><i>Example</i>"}

\* ------------------------------------------------------------ str ops
\* str.lower() on the characters the answers are made of.
LowerChar(c) ==
    CASE c = "Y" -> "y"
      [] c = "N" -> "n"
      [] OTHER -> c

Lower(s) == [i \in DOMAIN s |-> LowerChar(s[i])]

\* The characters str.strip() removes.
IsSpace(c) == c \in {" ", "\t"}

RECURSIVE LStrip(_)
LStrip(s) ==
    IF s # <<>> /\ IsSpace(Head(s)) THEN LStrip(Tail(s)) ELSE s

RECURSIVE RStrip(_)
RStrip(s) ==
    IF s # <<>> /\ IsSpace(s[Len(s)]) THEN RStrip(SubSeq(s, 1, Len(s) - 1)) ELSE s

\* A strip that forgets the right-hand side (str.lstrip).
Strip_LeftOnly(s) == LStrip(s)

\* str.strip()
Strip(s) == RStrip(LStrip(s))

\* str.split(','): the pieces between commas, empty pieces kept, so the
\* result always has one more element than the line has commas.
RECURSIVE SplitAcc(_, _, _)
SplitAcc(s, cur, acc) ==
    IF s = <<>> THEN Append(acc, cur)
    ELSE IF Head(s) = "," THEN SplitAcc(Tail(s), <<>>, Append(acc, cur))
    ELSE SplitAcc(Tail(s), Append(cur, Head(s)), acc)

Split(s) == SplitAcc(s, <<>>, <<>>)

\* sep.join(parts)
RECURSIVE Join(_, _)
Join(parts, sep) ==
    IF parts = <<>> THEN <<>>
    ELSE IF Len(parts) = 1 THEN parts[1]
    ELSE parts[1] \o sep \o Join(Tail(parts), sep)

NonEmpty(s) == s # <<>>

\* s with every element that occurred earlier dropped.
RECURSIVE Dedup(_)
Dedup(s) ==
    IF s = <<>> THEN <<>>
    ELSE LET front == Dedup(SubSeq(s, 1, Len(s) - 1))
             last == s[Len(s)]
         IN  IF \E i \in DOMAIN front : front[i] = last THEN front ELSE Append(front, last)

\* The comprehension of line 165 followed by a removal of duplicates.
StripAndFilter_Dedup(pieces) ==
    LET stripped == [i \in DOMAIN pieces |-> Strip(pieces[i])]
    IN  Dedup(SelectSeq(stripped, NonEmpty))

\* [tag.strip() for tag in tags if tag.strip()]
StripAndFilter(pieces) ==
    LET stripped == [i \in DOMAIN pieces |-> Strip(pieces[i])]
    IN  SelectSeq(stripped, NonEmpty)

\* input(...).split(',') followed by the comprehension of line 165.
NormaliseTags(line) == StripAndFilter(Split(line))

\* -------------------------------------------------- AnkiConnect helper
\* What urlopen/json.load may give anki_request (lines 101-102): the call
\* raises (Anki not running), the body is not a JSON object, or it is an
\* envelope {result, error}.
AnkiResponses(Results) ==
    {[kind |-> "transport_error", error |-> None, result |-> None],
     [kind |-> "bad_body", error |-> None, result |-> None]}
    \cup [kind : {"envelope"}, error : Opt({"", "cannot create note because it is a duplicate"}),
          result : Opt(Results)]

\* Truthiness of response_data.get('error') (line 103).
ErrorSet(resp) == resp.error # None /\ resp.error[1] # ""

\* anki_request without the check of line 103.
anki_request_IgnoresError(resp) ==
    LET raised == \/ resp.kind = "transport_error"
                  \/ resp.kind = "bad_body"
    IN  IF raised
        THEN [ret |-> None, printed |-> <<"anki_error">>]
        ELSE [ret |-> resp.result, printed |-> <<>>]

\* anki_request (lines 94-109): the value returned and what it printed.
\* Every exception raised in the try block, the one of line 104 included,
\* is caught at line 106 and becomes None.
anki_request(resp) ==
    LET raised == \/ resp.kind = "transport_error"
                  \/ resp.kind = "bad_body"
                  \/ ErrorSet(resp)
    IN  IF raised
        THEN [ret |-> None, printed |-> <<"anki_error">>]
        ELSE [ret |-> resp.result, printed |-> <<>>]

\* The card store carries out a request exactly when it answers it with an
\* envelope that has a result and no error.
StoreAccepted(resp) ==
    resp.kind = "envelope" /\ ~ErrorSet(resp) /\ resp.result # None

\* ------------------------------------------------------ Gemini helper
Part == [text : Opt(Texts)]

Content == [parts : Opt(SeqsUpTo(Part, MaxParts))]

Candidate == [content : Opt(Content)]

\* response_body: not JSON, JSON that is not an object, or an object whose
\* 'candidates' key is absent or holds a list.
Bodies ==
    {[json |-> FALSE, object |-> FALSE, candidates |-> None],
     [json |-> TRUE, object |-> FALSE, candidates |-> None]}
    \cup [json : {TRUE}, object : {TRUE},
          candidates : Opt(SeqsUpTo(Candidate, MaxCandidates))]

NoBody == [json |-> FALSE, object |-> FALSE, candidates |-> None]

\* What urlopen may do at line 64: raise URLError (no network), raise
\* HTTPError (4xx/5xx), or hand back a response with a 2xx status.
HttpOutcomes ==
    {[kind |-> "transport_error", status |-> 0, body |-> NoBody]}
    \cup [kind : {"http_error"}, status : {400, 500}, body : {NoBody}]
    \cup [kind : {"response"}, status : {200, 204}, body : Bodies]

\* Lines 69-78, after json.loads succeeded: the exception raised inside the
\* inner try ("" for none), the value returned and the message printed.
\* A part whose 'text' is JSON null and a part with no 'text' key both end
\* in None (the first returned, the second through KeyError and line 90).
ExtractText(result) ==
    IF ~result.object
    THEN [exc |-> "AttributeError", ret |-> None, printed |-> <<>>]
    ELSE IF /\ result.candidates # None
            /\ Len(result.candidates[1]) > 0
            /\ result.candidates[1][1].content # None
            /\ result.candidates[1][1].content[1].parts # None
            /\ Len(result.candidates[1][1].content[1].parts[1]) > 0
    THEN LET part == result.candidates[1][1].content[1].parts[1][1]
         IN  IF part.text = None
             THEN [exc |-> "KeyError", ret |-> None, printed |-> <<>>]
             ELSE [exc |-> "", ret |-> part.text, printed |-> <<>>]
    ELSE [exc |-> "", ret |-> None, printed |-> <<"gen_no_text">>]

\* The with block without the status test of line 66.
HandleResponse_NoStatusCheck(http) ==
    IF ~http.body.json
    THEN [exc |-> "", ret |-> None, printed |-> <<"gen_bad_json">>]
    ELSE ExtractText(http.body)

\* Lines 66-84: the body of the with block.
HandleResponse(http) ==
    IF http.status = 200
    THEN IF ~http.body.json
         THEN [exc |-> "", ret |-> None, printed |-> <<"gen_bad_json">>]
         ELSE ExtractText(http.body)
    ELSE [exc |-> "", ret |-> None, printed |-> <<"gen_status">>]

\* generate_flashcard_content (lines 27-92): the exception that escapes to
\* the caller ("" for none), the value returned and what was printed.
generate_flashcard_content(api_key, concept, http) ==
    LET inner == IF http.kind = "response"
                 THEN HandleResponse(http)
                 ELSE [exc |-> IF http.kind = "http_error" THEN "HTTPError" ELSE "URLError",
                       ret |-> None, printed |-> <<>>]
    IN  IF inner.exc = "HTTPError"
        THEN [exc |-> "", ret |-> None, printed |-> <<"gen_start", "gen_http_error">>]
        ELSE IF inner.exc # ""
        THEN [exc |-> "", ret |-> None, printed |-> <<"gen_start", "gen_unexpected">>]
        ELSE [exc |-> "", ret |-> inner.ret, printed |-> <<"gen_start">> \o inner.printed]

\* A test for None in place of the truthiness test of line 156.
HasContent_NotNone(ret) == ret # None

\* Python truthiness of the generator's return value (line 156).
HasContent(ret) == ret # None /\ ret[1] # ""

\* ------------------------------------------------------- environment
\* The deckNames result for a store holding the decks S.
DeckList(S) == SelectSeq(DeckUniverse, LAMBDA d : d \in S)

\* Results the store may send for deckNames: the list of its decks, or a
\* JSON value that is not iterable.
DeckResults(S) ==
    {[iterable |-> TRUE, items |-> DeckList(S)],
     [iterable |-> FALSE, items |-> <<>>]}

\* Results the store may send for createDeck and addNote: an identifier.
IdResults == {0, 1}

TagAlphabet == {"a", "b", " ", ","}

\* The line "a, b ,, c".
ExampleLine == <<"a", ",", " ", "b", " ", ",", ",", " ", "c">>

\* What the user may type at the tags prompt.
TagLines == SeqsUpTo(TagAlphabet, MaxLineLen) \cup {ExampleLine}

\* --------------------------------------------------------------- state
VARIABLES
    pc,                      \* position in create_flashcard
    env,                     \* the GEMINI_API_KEY environment variable
    gemini_api_key,          \* local of create_flashcard (line 118)
    deck_names,              \* local (line 124)
    answer1,                 \* what was typed at the first "AI_Adder?" prompt
    answer2,                 \* what was typed at the second "AI_Adder?" prompt
    typed_deck,              \* what was typed at the deck-name prompt
    deck_name,               \* local (lines 133, 135); None while unbound
    create_answer,           \* what was typed at the "Create it?" prompt
    create_deck,             \* local (line 138)
    created,                 \* what anki_request('createDeck') returned
    concept,                 \* local (line 152)
    generated_content_html,  \* local (line 155)
    tags_line,               \* what was typed at the tags prompt
    note,                    \* local (line 168)
    add_response,            \* the store's answer to addNote
    requests,                \* the requests sent so far, in order
    output,                  \* the messages printed so far, in order
    storeDecks,              \* the decks the card store holds
    gen_call,                \* arguments of a generate_flashcard_content call
    gen_returned,            \* what that call returned
    tag_line,                \* a tags line
    tag_once,                \* its normalisation
    tag_twice                \* the normalisation of the re-joined tags

appVars ==
    <<pc, env, gemini_api_key, deck_names, answer1, answer2, typed_deck, deck_name,
      create_answer, create_deck, created, concept, generated_content_html, tags_line,
      note, add_response, requests, output, storeDecks>>

genVars == <<gen_call, gen_returned>>

tagVars == <<tag_line, tag_once, tag_twice>>

vars == <<appVars, genVars, tagVars>>

\* The locals and the console of a run that has not started.
AppIdle ==
    /\ pc = "start"
    /\ gemini_api_key = None
    /\ deck_names = None
    /\ answer1 = None
    /\ answer2 = None
    /\ typed_deck = None
    /\ deck_name = None
    /\ create_answer = None
    /\ create_deck = None
    /\ created = None
    /\ concept = None
    /\ generated_content_html = None
    /\ tags_line = None
    /\ note = None
    /\ add_response = None
    /\ requests = <<>>
    /\ output = <<>>

GenIdle == gen_call = None /\ gen_returned = None

TagIdle == tag_line = None /\ tag_once = None /\ tag_twice = None

Init ==
    /\ AppIdle
    /\ env \in EnvKeys
    /\ storeDecks \in SUBSET {DeckUniverse[i] : i \in DOMAIN DeckUniverse}
    /\ GenIdle
    /\ TagIdle

\* ------------------------------------------------------------- actions
\* get_gemini_api_key (lines 12-24).
get_gemini_api_key(e) ==
    IF e = None \/ e[1] = ""
    THEN [ret |-> None, printed |-> <<"no_api_key">>]
    ELSE [ret |-> e, printed |-> <<>>]

\* Lines 115-120.
GetKey ==
    /\ pc = "start"
    /\ LET k == get_gemini_api_key(env)
       IN  /\ gemini_api_key' = k.ret
           /\ output' = output \o <<"banner">> \o k.printed
           /\ pc' = IF k.ret = None THEN "done" ELSE "fetch_decks"
    /\ UNCHANGED <<env, deck_names, answer1, answer2, typed_deck, deck_name, create_answer,
                     create_deck, created, concept, generated_content_html, tags_line,
                     note, add_response, requests, storeDecks, genVars, tagVars>>

\* Lines 124-129; a result that cannot be iterated raises in the for loop
\* and is caught at line 147.
FetchDecks ==
    /\ pc = "fetch_decks"
    /\ \E resp \in AnkiResponses(DeckResults(storeDecks)) :
         LET r == anki_request(resp)
         IN  /\ requests' = Append(requests, [action |-> "deckNames", params |-> <<>>])
             /\ deck_names' = r.ret
             /\ IF r.ret = None
                THEN /\ output' = output \o r.printed
                     /\ pc' = "done"
                ELSE IF ~r.ret[1].iterable
                THEN /\ output' = output \o <<"decks_header", "deck_exception">>
                     /\ pc' = "done"
                ELSE /\ output' = output \o <<"decks_header", "decks_listed">>
                     /\ pc' = "ask_favourite"
    /\ UNCHANGED <<env, gemini_api_key, answer1, answer2, typed_deck, deck_name,
                     create_answer, create_deck, created, concept, generated_content_html,
                     tags_line, note, add_response, storeDecks, genVars, tagVars>>

\* A case-insensitive reading of the first answer.
FavouriteChosen_CaseInsensitive(a) == Lower(a) = <<"y">>

\* The test of line 132.
FavouriteChosen(a) == a = <<"y">>

\* Lines 132-133.
AskFavourite ==
    /\ pc = "ask_favourite"
    /\ \E a \in Answers :
         /\ answer1' = Some(a)
         /\ IF FavouriteChosen(a)
            THEN deck_name' = Some(FavouriteDeck) /\ pc' = "check_deck"
            ELSE UNCHANGED deck_name /\ pc' = "ask_again"
    /\ UNCHANGED <<env, gemini_api_key, deck_names, answer2, typed_deck, create_answer,
                     create_deck, created, concept, generated_content_html, tags_line,
                     note, add_response, requests, output, storeDecks, genVars, tagVars>>

\* Line 134: the same question is asked a second time.
AskAgain ==
    /\ pc = "ask_again"
    /\ \E a \in Answers :
         /\ answer2' = Some(a)
         /\ pc' = IF a = <<"n">> THEN "ask_deck_name" ELSE "check_deck"
    /\ UNCHANGED <<env, gemini_api_key, deck_names, answer1, typed_deck, deck_name,
                     create_answer, create_deck, created, concept, generated_content_html,
                     tags_line, note, add_response, requests, output, storeDecks, genVars,
                     tagVars>>

\* Line 135.
EnterDeckName ==
    /\ pc = "ask_deck_name"
    /\ \E d \in DeckInputs :
         /\ typed_deck' = Some(d)
         /\ deck_name' = Some(d)
    /\ pc' = "check_deck"
    /\ UNCHANGED <<env, gemini_api_key, deck_names, answer1, answer2, create_answer,
                     create_deck, created, concept, generated_content_html, tags_line,
                     note, add_response, requests, output, storeDecks, genVars, tagVars>>

\* x in list
InList(x, list) == \E i \in DOMAIN list : list[i] = x

\* The test of line 137 inverted.
DeckStep_Inverted(name, list) ==
    IF InList(name, list) THEN "ask_create" ELSE "ask_concept"

\* Where line 137 sends a run whose deck name is bound.
DeckStep(name, list) ==
    IF InList(name, list) THEN "ask_concept" ELSE "ask_create"

\* Line 137; reading the unbound deck_name raises UnboundLocalError, which
\* is caught at line 147.
CheckDeck ==
    /\ pc = "check_deck"
    /\ IF deck_name = None
       THEN output' = Append(output, "deck_exception") /\ pc' = "done"
       ELSE UNCHANGED output /\ pc' = DeckStep(deck_name[1], deck_names[1].items)
    /\ UNCHANGED <<env, gemini_api_key, deck_names, answer1, answer2, typed_deck, deck_name,
                     create_answer, create_deck, created, concept, generated_content_html,
                     tags_line, note, add_response, requests, storeDecks, genVars,
                     tagVars>>

\* The else branch of lines 144-146 without its return.
AfterCreateAnswer_NoReturn(answer) ==
    IF answer = <<"y">> THEN "create_deck" ELSE "ask_concept"

\* Lines 139 and 144-146: where the lowered answer sends the run.
AfterCreateAnswer(answer) ==
    IF answer = <<"y">> THEN "create_deck" ELSE "done"

\* Lines 138-139 and 144-146.
AskCreate ==
    /\ pc = "ask_create"
    /\ \E a \in Answers :
         /\ create_answer' = Some(a)
         /\ create_deck' = Some(Lower(a))
         /\ output' = IF Lower(a) = <<"y">> THEN output ELSE Append(output, "cancelled")
         /\ pc' = AfterCreateAnswer(Lower(a))
    /\ UNCHANGED <<env, gemini_api_key, deck_names, answer1, answer2, typed_deck, deck_name,
                     created, concept, generated_content_html, tags_line, note,
                     add_response, requests, storeDecks, genVars, tagVars>>

\* Lines 140-142 without the return.
AfterCreateDeck_NoReturn(ret) == "ask_concept"

\* Lines 140-143: where the createDeck result sends the run.
AfterCreateDeck(ret) == IF ret = None THEN "done" ELSE "ask_concept"

\* Lines 140-143.
CreateDeck ==
    /\ pc = "create_deck"
    /\ \E resp \in AnkiResponses(IdResults) :
         LET r == anki_request(resp)
         IN  /\ requests' = Append(requests, [action |-> "createDeck",
                                              params |-> [deck |-> deck_name[1]]])
             /\ storeDecks' = IF StoreAccepted(resp)
                              THEN storeDecks \cup {deck_name[1]}
                              ELSE storeDecks
             /\ created' = r.ret
             /\ output' = IF r.ret = None
                          THEN output \o r.printed \o <<"create_failed">>
                          ELSE output \o <<"deck_created">>
             /\ pc' = AfterCreateDeck(r.ret)
    /\ UNCHANGED <<env, gemini_api_key, deck_names, answer1, answer2, typed_deck, deck_name,
                     create_answer, create_deck, concept, generated_content_html,
                     tags_line, note, add_response, genVars, tagVars>>

\* Line 152.
AskConcept ==
    /\ pc = "ask_concept"
    /\ \E c \in Concepts : concept' = Some(c)
    /\ pc' = "generate"
    /\ UNCHANGED <<env, gemini_api_key, deck_names, answer1, answer2, typed_deck, deck_name,
                     create_answer, create_deck, created, generated_content_html,
                     tags_line, note, add_response, requests, output, storeDecks, genVars,
                     tagVars>>

\* Lines 155-158.
Generate ==
    /\ pc = "generate"
    /\ \E http \in HttpOutcomes :
         LET g == generate_flashcard_content(gemini_api_key[1], concept[1], http)
         IN  /\ requests' = Append(requests, [action |-> "generateContent",
                                              params |-> [key |-> gemini_api_key[1],
                                                          concept |-> concept[1]]])
             /\ IF g.exc # ""
                THEN /\ output' = output \o g.printed \o <<"traceback">>
                     /\ pc' = "done"
                     /\ UNCHANGED generated_content_html
                ELSE /\ generated_content_html' = g.ret
                     /\ IF HasContent(g.ret)
                        THEN output' = output \o g.printed /\ pc' = "ask_tags"
                        ELSE output' = output \o g.printed \o <<"no_content">> /\ pc' = "done"
    /\ UNCHANGED <<env, gemini_api_key, deck_names, answer1, answer2, typed_deck, deck_name,
                     create_answer, create_deck, created, concept, tags_line, note,
                     add_response, storeDecks, genVars, tagVars>>

\* The note with its two fields exchanged.
BuildNote_Swapped(deck, front, back, tags) ==
    [deckName |-> deck,
     modelName |-> "Basic",
     fields |-> [Front |-> back, Back |-> front],
     options |-> [allowDuplicate |-> FALSE, duplicateScope |-> "deck"],
     tags |-> tags]

\* Lines 168-180.
BuildNote(deck, front, back, tags) ==
    [deckName |-> deck,
     modelName |-> "Basic",
     fields |-> [Front |-> front, Back |-> back],
     options |-> [allowDuplicate |-> FALSE, duplicateScope |-> "deck"],
     tags |-> tags]

\* Lines 160-180.
AskTags ==
    /\ pc = "ask_tags"
    /\ \E line \in TagLines :
         /\ tags_line' = Some(line)
         /\ note' = Some(BuildNote(deck_name[1], concept[1], generated_content_html[1],
                                   NormaliseTags(line)))
    /\ pc' = "add_note"
    /\ UNCHANGED <<env, gemini_api_key, deck_names, answer1, answer2, typed_deck, deck_name,
                     create_answer, create_deck, created, concept, generated_content_html,
                     add_response, requests, output, storeDecks, genVars, tagVars>>

\* Truthiness of the addNote result (line 185).
Truthy(ret) == ret # None /\ ret[1] # 0

\* Lines 183-193.
AddNote ==
    /\ pc = "add_note"
    /\ \E resp \in AnkiResponses(IdResults) :
         LET r == anki_request(resp)
         IN  /\ requests' = Append(requests, [action |-> "addNote",
                                              params |-> [note |-> note[1]]])
             /\ add_response' = Some(resp)
             /\ output' = output \o r.printed \o
                            (IF Truthy(r.ret) THEN <<"added">> ELSE <<"add_failed">>)
    /\ pc' = "done"
    /\ UNCHANGED <<env, gemini_api_key, deck_names, answer1, answer2, typed_deck, deck_name,
                     create_answer, create_deck, created, concept, generated_content_html,
                     tags_line, note, storeDecks, genVars, tagVars>>

Next ==
    \/ GetKey
    \/ FetchDecks
    \/ AskFavourite
    \/ AskAgain
    \/ EnterDeckName
    \/ CheckDeck
    \/ AskCreate
    \/ CreateDeck
    \/ AskConcept
    \/ Generate
    \/ AskTags
    \/ AddNote

\* One run of create_flashcard against some environment and some user.
Spec == Init /\ [][Next]_vars

\* ---------------------------------- generate_flashcard_content alone
InitGen ==
    /\ AppIdle
    /\ env = Some("KEY")
    /\ storeDecks = {}
    /\ gen_call \in {Some([api_key |-> "KEY", concept |-> c, http |-> h]) :
                       c \in Concepts, h \in HttpOutcomes}
    /\ gen_returned = None
    /\ TagIdle

GenApply ==
    /\ gen_call # None
    /\ gen_returned = None
    /\ gen_returned' = Some(generate_flashcard_content(gen_call[1].api_key,
                                                       gen_call[1].concept,
                                                       gen_call[1].http))
    /\ UNCHANGED <<appVars, gen_call, tagVars>>

NextGen == GenApply

\* One call of generate_flashcard_content on some HTTP outcome.
SpecGen == InitGen /\ [][NextGen]_vars

\* ------------------------------------------- tag normalisation alone
InitTags ==
    /\ AppIdle
    /\ env = Some("KEY")
    /\ storeDecks = {}
    /\ GenIdle
    /\ tag_line \in {Some(l) : l \in TagLines}
    /\ tag_once = None
    /\ tag_twice = None

\* Lines 164-165 applied to the line.
TagsNormalise ==
    /\ tag_line # None
    /\ tag_once = None
    /\ tag_once' = Some(NormaliseTags(tag_line[1]))
    /\ UNCHANGED <<appVars, genVars, tag_line, tag_twice>>

\* Lines 164-165 applied to ','.join(tags).
TagsRejoin ==
    /\ tag_once # None
    /\ tag_twice = None
    /\ tag_twice' = Some(NormaliseTags(Join(tag_once[1], <<",">>)))
    /\ UNCHANGED <<appVars, genVars, tag_line, tag_once>>

NextTags == TagsNormalise \/ TagsRejoin

\* The tags line normalised, re-joined with commas and normalised again.
SpecTags == InitTags /\ [][NextTags]_vars


\* ------------------------------------------------------------- claims
\* The request with the given action name has been sent.
Sent(a) == \E i \in DOMAIN requests : requests[i].action = a

\* The action names of the requests sent, in order.
SentActions == [i \in DOMAIN requests |-> requests[i].action]

\* The message has been printed.
Printed(m) == \E i \in DOMAIN output : output[i] = m

IsPrefix(s, t) == Len(s) <= Len(t) /\ SubSeq(t, 1, Len(s)) = s

\* The resolved deck name is bound and is not in the fetched list.
DeckMissing ==
    /\ deck_name # None
    /\ deck_names # None
    /\ \A i \in DOMAIN deck_names[1].items : deck_names[1].items[i] # deck_name[1]

\* The user answered the "Create it?" prompt with something other than y or Y.
Declined == create_answer # None /\ create_answer[1] \notin {<<"y">>, <<"Y">>}

\* C1: in a run where the resolved deck name is not in the fetched list and
\* the answer to "Create it? (y/n)" is not 'y' in either case, no addNote,
\* no createDeck and no generator request is ever sent.
C1_DeclineSendsNothing ==
    (DeckMissing /\ Declined)
        => /\ ~Sent("addNote")
           /\ ~Sent("createDeck")
           /\ ~Sent("generateContent")

\* C1 witness: the deck was missing, the user typed n, the run ended
\* with the cancellation message.
C1_Witness ==
    /\ DeckMissing
    /\ create_answer = Some(<<"n">>)
    /\ pc = "done"
    /\ Printed("cancelled")

\* The generator returned something other than a non-empty string.
NoContent == generated_content_html = None \/ generated_content_html[1] = ""

\* The store's answer to addNote does not carry an identifier that counts
\* as success.
AddFailed ==
    /\ add_response # None
    /\ \/ add_response[1].kind # "envelope"
       \/ (add_response[1].error # None /\ add_response[1].error[1] # "")
       \/ add_response[1].result = None
       \/ add_response[1].result[1] = 0

\* C2: once a step has failed (no API key, deckNames without a result,
\* createDeck without a result, no generated content, addNote failed) the
\* run is over and the failed step's request is the last one sent; a deck
\* that createDeck created is still in the store when the run has ended.
C2_FailureIsTerminal ==
    /\ (pc # "start" /\ gemini_api_key = None)
           => (pc = "done" /\ requests = <<>>)
    /\ (Sent("deckNames") /\ deck_names = None)
           => (pc = "done" /\ SentActions = <<"deckNames">>)
    /\ (Sent("createDeck") /\ created = None)
           => (pc = "done" /\ SentActions = <<"deckNames", "createDeck">>)
    /\ (Sent("generateContent") /\ NoContent)
           => (pc = "done" /\ SentActions[Len(requests)] = "generateContent")
    /\ AddFailed
           => (pc = "done" /\ SentActions[Len(requests)] = "addNote")
    /\ (pc = "done" /\ created # None) => deck_name[1] \in storeDecks

\* C2 witness: a deck was created, then addNote failed; the run is over
\* and the created deck is in the store.
C2_Witness ==
    /\ pc = "done"
    /\ DeckMissing
    /\ created # None
    /\ AddFailed
    /\ Printed("add_failed")
    /\ deck_name[1] \in storeDecks

\* C3: the requests sent are a prefix of deckNames, [createDeck,] generator,
\* addNote; createDeck only for a missing deck the user accepted to create;
\* the generator only after the deck step succeeded; addNote only after the
\* generator returned non-empty content; nothing before the key is known.
C3_RequestOrder ==
    /\ \/ IsPrefix(SentActions, <<"deckNames", "generateContent", "addNote">>)
       \/ IsPrefix(SentActions, <<"deckNames", "createDeck", "generateContent", "addNote">>)
    /\ Sent("createDeck") => (DeckMissing /\ ~Declined /\ create_answer # None)
    /\ Sent("generateContent")
           => /\ deck_name # None
              /\ deck_names # None
              /\ \/ ~DeckMissing
                 \/ (Sent("createDeck") /\ created # None)
    /\ Sent("addNote") => ~NoContent
    /\ requests # <<>> => (gemini_api_key # None /\ gemini_api_key[1] # "")

\* C3 witness: a run that sent all four requests.
C3_Witness ==
    SentActions = <<"deckNames", "createDeck", "generateContent", "addNote">>

\* The store answered addNote with a non-empty error field.
AddErrored ==
    /\ add_response # None
    /\ add_response[1].kind = "envelope"
    /\ add_response[1].error # None
    /\ add_response[1].error[1] # ""

\* C4: when the store answers addNote with a non-empty error, anki_request
\* returns None and the run prints the failure message, never the
\* confirmation; the confirmation is printed only for an answer with no
\* error and a truthy result.
C4_AddNoteErrorReported ==
    /\ AddErrored
           => /\ anki_request(add_response[1]).ret = None
              /\ Printed("add_failed")
              /\ ~Printed("added")
    /\ Printed("added")
           => /\ add_response # None
              /\ add_response[1].kind = "envelope"
              /\ ~AddErrored
              /\ add_response[1].result # None
              /\ add_response[1].result[1] # 0

\* C4 witness: the store rejected the note as a duplicate while still
\* sending a result, and the run reported the failure.
C4_Witness ==
    /\ AddErrored
    /\ add_response[1].result = Some(1)
    /\ Printed("add_failed")
    /\ pc = "done"

\* The HTTP outcome is a 200 response whose body is a JSON object in which
\* candidates[0].content.parts[0].text exists.
TextPath(http) ==
    /\ http.kind = "response"
    /\ http.status = 200
    /\ http.body.json
    /\ http.body.object
    /\ http.body.candidates # None
    /\ Len(http.body.candidates[1]) >= 1
    /\ http.body.candidates[1][1].content # None
    /\ http.body.candidates[1][1].content[1].parts # None
    /\ Len(http.body.candidates[1][1].content[1].parts[1]) >= 1
    /\ http.body.candidates[1][1].content[1].parts[1][1].text # None

C6_NoteFields ==
    \A i \in DOMAIN requests :
        requests[i].action = "addNote"
            => LET n == requests[i].params.note
               IN  /\ n.fields.Front = concept[1]
                   /\ n.fields.Back = generated_content_html[1]
                   /\ n.modelName = "Basic"
                   /\ n.deckName = deck_name[1]
                   /\ n.options.allowDuplicate = FALSE
                   /\ n.options.duplicateScope = "deck"

\* C6 witness: addNote was sent for the typed deck name "New".
C6_Witness ==
    /\ Sent("addNote")
    /\ typed_deck = Some("New")
    /\ concept = Some("entropy")

\* No element of the sequence occurs twice.
NoDuplicates(s) == \A i, j \in DOMAIN s : s[i] = s[j] => i = j

\* C7 as stated: no tag occurs more than once in the tags of the note sent
\* with addNote.
C7_TagsHaveNoDuplicates ==
    \A i \in DOMAIN requests :
        requests[i].action = "addNote" => NoDuplicates(requests[i].params.note.tags)

\* The piece holds nothing but whitespace.
IsBlank(p) == \A i \in DOMAIN p : IsSpace(p[i])

\* How many of the first i pieces are not blank.
Kept(pieces, i) == Cardinality({j \in 1..i : ~IsBlank(pieces[j])})

\* C7 amended: the tags of the note sent with addNote are the comma-separated
\* entries of the line that are not blank, each trimmed, in the order typed,
\* one tag per entry: an entry typed twice gives two tags.
C7_TagsKeepEveryEntry ==
    \A i \in DOMAIN requests :
        requests[i].action = "addNote"
            => LET tags == requests[i].params.note.tags
                   pieces == Split(tags_line[1])
               IN  /\ Len(tags) = Kept(pieces, Len(pieces))
                   /\ \A j \in DOMAIN pieces :
                          ~IsBlank(pieces[j]) => tags[Kept(pieces, j)] = Strip(pieces[j])

\* C7 witness: the line "a,a" was typed and the note sent carries 'a' twice.
C7_Witness ==
    /\ Sent("addNote")
    /\ tags_line = Some(<<"a", ",", "a">>)
    /\ note[1].tags = << <<"a">>, <<"a">> >>

\* C8: normalising, joining with commas and normalising again gives the same
\* tags; every tag is non-empty with no whitespace at either end; the line
\* "a, b ,, c" gives ['a', 'b', 'c'].
C8_TagsIdempotent ==
    /\ tag_once # None
           => \A i \in DOMAIN tag_once[1] :
                  LET t == tag_once[1][i]
                  IN  /\ t # <<>>
                      /\ ~IsSpace(t[1])
                      /\ ~IsSpace(t[Len(t)])
    /\ tag_twice # None => tag_twice = tag_once
    /\ (tag_line = Some(ExampleLine) /\ tag_once # None)
           => tag_once = Some(<< <<"a">>, <<"b">>, <<"c">> >>)

\* C8 witness: the line "a, b ,, c" normalised twice.
C8_Witness ==
    /\ tag_line = Some(ExampleLine)
    /\ tag_twice # None
    /\ Len(tag_twice[1]) = 3

\* C9: the deck of the note sent with addNote is in the fetched list, or a
\* createDeck request for it was sent earlier and returned a result.
C9_NoteDeckKnown ==
    \A i \in DOMAIN requests :
        requests[i].action = "addNote"
            => LET d == requests[i].params.note.deckName
               IN  \/ \E k \in DOMAIN deck_names[1].items : deck_names[1].items[k] = d
                   \/ /\ created # None
                      /\ \E k \in 1..(i - 1) :
                             /\ requests[k].action = "createDeck"
                             /\ requests[k].params.deck = d

\* C9 witness: addNote was sent for the favourite deck, which had to be
\* created first.
C9_Witness ==
    /\ Sent("addNote")
    /\ answer1 = Some(<<"y">>)
    /\ DeckMissing
    /\ created # None

\* C10: first answer 'y' gives the favourite deck without a second prompt;
\* otherwise the prompt is repeated, and a second answer 'n' gives the typed
\* name; otherwise deck_name stays unbound, and the run then ends in the
\* deck step with a message, having sent deckNames and nothing else.
C10_FavouriteChoice ==
    /\ answer1 = Some(<<"y">>)
           => (deck_name = Some(FavouriteDeck) /\ answer2 = None /\ typed_deck = None)
    /\ (answer1 # None /\ answer1 # Some(<<"y">>) /\ answer2 = None)
           => (pc = "ask_again" /\ deck_name = None)
    /\ answer2 # None => (answer1 # None /\ answer1 # Some(<<"y">>))
    /\ answer2 = Some(<<"n">>)
           => IF typed_deck = None
              THEN pc = "ask_deck_name" /\ deck_name = None
              ELSE deck_name = typed_deck
    /\ (answer2 # None /\ answer2 # Some(<<"n">>))
           => /\ deck_name = None
              /\ typed_deck = None
              /\ pc \in {"check_deck", "done"}
              /\ pc = "done"
                     => /\ SentActions = <<"deckNames">>
                        /\ output[Len(output)] = "deck_exception"

\* C10 witness: the answers 'Y' and then '' left deck_name unbound and the
\* run ended with the deck-step message.
C10_Witness ==
    /\ answer1 = Some(<<"Y">>)
    /\ answer2 = Some(<<>>)
    /\ deck_name = None
    /\ pc = "done"
    /\ Printed("deck_exception")

====
